---- MODULE Spec2Model ----
(***************************************************************************)
(* A model of be/src/util/json.cpp: the JsonValue constructors, the text   *)
(* conversions parse / to_string and the comparator sliceCompare with its  *)
(* two public entry points.                                                *)
(*                                                                         *)
(* A velocypack slice is a record [t |-> <ValueType name>, v |-> payload]. *)
(* 64-bit integers are kept at their real width as four 16-bit limbs,      *)
(* least significant first (a two's complement bit pattern); the int that  *)
(* sliceCompare returns is kept at its real width of 32 bits.              *)
(***************************************************************************)
EXTENDS Integers, Sequences, FiniteSets

VARIABLES pc, left, right, text, roundtrip, result, op

vars == <<pc, left, right, text, roundtrip, result, op>>

\* Bounds of the model: elements of an array text, fields of an object text,
\* bytes of a string.
MaxLen == 2
MaxStrLen == 1

(***************************************************************************)
(* 64-bit words                                                            *)
(***************************************************************************)
Base == 2^16
HalfBase == 2^15

Word(a, b, c, d) == <<a, b, c, d>>
Small(n) == Word(n, 0, 0, 0)
Zero64 == Small(0)

\* a - b modulo 2^64
Sub64(a, b) ==
    LET d1 == a[1] - b[1]
        b1 == IF d1 < 0 THEN 1 ELSE 0
        d2 == a[2] - b[2] - b1
        b2 == IF d2 < 0 THEN 1 ELSE 0
        d3 == a[3] - b[3] - b2
        b3 == IF d3 < 0 THEN 1 ELSE 0
        d4 == a[4] - b[4] - b3
    IN  Word((d1 + Base) % Base, (d2 + Base) % Base,
             (d3 + Base) % Base, (d4 + Base) % Base)

Neg64(a) == Sub64(Zero64, a)

\* the sign bit of a word read as int64_t
IsNeg64(a) == a[4] >= HalfBase

\* unsigned order of two words
ULess64(a, b) ==
    \E i \in 1..4 : a[i] < b[i] /\ \A j \in (i+1)..4 : a[j] = b[j]

\* a - b leaves the range of int64_t
SubOverflows(a, b) ==
    IsNeg64(a) # IsNeg64(b) /\ IsNeg64(Sub64(a, b)) # IsNeg64(a)

\* the conversion of an int64_t to the int that sliceCompare returns: the
\* low 32 bits, read as a signed number
TruncInt(w) ==
    IF w[2] >= HalfBase THEN (w[2] - Base) * Base + w[1]
    ELSE w[2] * Base + w[1]

(***************************************************************************)
(* doubles: a NaN, an infinity, or a finite value neg * (mag + half/2),    *)
(* mag a magnitude of five limbs (a converted uint64_t can round up to     *)
(* 2^64).  Zero is kept with neg = FALSE.                                  *)
(***************************************************************************)
Mag(a, b, c, d, e) == <<a, b, c, d, e>>
ZeroMag == Mag(0, 0, 0, 0, 0)
NaN == [cls |-> "nan", neg |-> FALSE, mag |-> ZeroMag, half |-> FALSE]
Inf(n) == [cls |-> "inf", neg |-> n, mag |-> ZeroMag, half |-> FALSE]
Fin(n, m, h) == [cls |-> "fin", neg |-> n, mag |-> m, half |-> h]

MagLess(a, b) ==
    \E i \in 1..5 : a[i] < b[i] /\ \A j \in (i+1)..5 : a[j] = b[j]

\* |x| < |y| for two values that are not NaN
AbsLess(x, y) ==
    IF x.cls = "inf" THEN FALSE
    ELSE IF y.cls = "inf" THEN TRUE
    ELSE MagLess(x.mag, y.mag) \/ (x.mag = y.mag /\ ~x.half /\ y.half)

\* std::isless: false when either side is a NaN
isless(x, y) ==
    IF x.cls = "nan" \/ y.cls = "nan" THEN FALSE
    ELSE IF x.neg # y.neg THEN x.neg
    ELSE IF x.neg THEN AbsLess(y, x)
    ELSE AbsLess(x, y)

\* std::isgreater: false when either side is a NaN
isgreater(x, y) == isless(y, x)

cmpDouble(l, r) ==
    IF isless(l, r) THEN -1 ELSE IF isgreater(l, r) THEN 1 ELSE 0

\* the number of bits of n, for 2^5 <= n < 2^16
BitLen(n) == CHOOSE b \in 6..16 : 2^(b-1) <= n /\ n < 2^b

\* a magnitude below 2^64 rounded to the 53 significant bits of a double,
\* to nearest, ties to even
Round53(m) ==
    IF m[4] < 2^5 THEN Mag(m[1], m[2], m[3], m[4], 0)
    ELSE LET q    == 2^(BitLen(m[4]) - 5)
             rem  == m[1] % q
             kept == m[1] - rem
             up   == 2 * rem > q \/ (2 * rem = q /\ (kept \div q) % 2 = 1)
             s1   == kept + (IF up THEN q ELSE 0)
             s2   == m[2] + (s1 \div Base)
             s3   == m[3] + (s2 \div Base)
             s4   == m[4] + (s3 \div Base)
         IN  Mag(s1 % Base, s2 % Base, s3 % Base, s4 % Base, s4 \div Base)

\* static_cast<double> of an int64_t and of a uint64_t
DoubleOfInt(w) ==
    IF w = Zero64 THEN Fin(FALSE, ZeroMag, FALSE)
    ELSE Fin(IsNeg64(w), Round53(IF IsNeg64(w) THEN Neg64(w) ELSE w), FALSE)

DoubleOfUInt(w) == Fin(FALSE, Round53(w), FALSE)

(***************************************************************************)
(* slices and the scalar constructors                                      *)
(***************************************************************************)
Slice(t, v) == [t |-> t, v |-> v]

noneJsonSlice == Slice("None", <<>>)
nullJsonSlice == Slice("Null", <<>>)
MinKey == Slice("MinKey", <<>>)
MaxKey == Slice("MaxKey", <<>>)

\* Builder::addInt keeps -6 .. 9 in one byte, as a SmallInt
addInt(w) ==
    IF (w[2] = 0 /\ w[3] = 0 /\ w[4] = 0 /\ w[1] <= 9)
       \/ (w[2] = Base - 1 /\ w[3] = Base - 1 /\ w[4] = Base - 1 /\ w[1] >= Base - 6)
    THEN Slice("SmallInt", w)
    ELSE Slice("Int", w)

\* Builder::addUInt keeps 0 .. 9 in one byte, as a SmallInt
addUInt(w) ==
    IF w[2] = 0 /\ w[3] = 0 /\ w[4] = 0 /\ w[1] <= 9
    THEN Slice("SmallInt", w)
    ELSE Slice("UInt", w)

from_null == nullJsonSlice
from_int(w) == addInt(w)
from_uint(w) == addUInt(w)
from_bool(b) == Slice("Bool", <<b>>)
from_double(d) == Slice("Double", d)
from_string(s) == Slice("String", s)

\* the inputs the constructors are given
IntInputs ==
    { Small(0), Small(1), Small(3), Small(10), Small(12), Small(15),
      Neg64(Small(1)), Neg64(Small(7)),
      Word(0, HalfBase, 0, 0),                       \* 2^31
      Word(0, 0, 0, 1),                              \* 2^48
      Word(0, 0, 1, 0),                              \* 2^32
      Word(1, 0, 0, 2^5),                            \* 2^53 + 1
      Word(Base - 1, Base - 1, Base - 1, HalfBase - 1),   \* INT64_MAX
      Word(0, 0, 0, HalfBase) }                      \* INT64_MIN

UintInputs ==
    { Small(3), Small(10),
      Word(0, 0, 0, 1),                              \* 2^48
      Word(1, 0, 0, 2^5),                            \* 2^53 + 1
      Word(0, 0, 0, HalfBase),                       \* 2^63
      Word(Base - 1, Base - 1, Base - 1, Base - 1) } \* 2^64 - 1

DoubleInputs ==
    { NaN, Inf(FALSE), Inf(TRUE),
      Fin(FALSE, ZeroMag, FALSE),                    \* 0.0
      Fin(FALSE, Mag(3, 0, 0, 0, 0), FALSE),         \* 3.0
      Fin(FALSE, Mag(1, 0, 0, 0, 0), TRUE),          \* 1.5
      Fin(TRUE, Mag(1, 0, 0, 0, 0), FALSE),          \* -1.0
      Fin(FALSE, Mag(0, 0, 0, 2^5, 0), FALSE) }      \* 2^53

Bytes == {97, 98}
Strings == UNION { [1..n -> Bytes] : n \in 0..MaxStrLen }

(***************************************************************************)
(* the comparator                                                          *)
(*                                                                         *)
(* An outcome is a returned int, a velocypack exception leaving the        *)
(* function, or undefined behaviour.  sliceCompare yields the set of       *)
(* outcomes the build can produce: one, except where the C++ leaves the    *)
(* value open (memcmp's magnitude, signed overflow).                       *)
(***************************************************************************)
Ret(n) == [k |-> "ret", n |-> n]
Throw(e) == [k |-> e, n |-> 0]
Undefined == [k |-> "undefined", n |-> 0]

\* velocypack's ValueType enumeration
TypeOrdinal(t) ==
    CASE t = "None" -> 0
      [] t = "Null" -> 2
      [] t = "Bool" -> 3
      [] t = "Array" -> 4
      [] t = "Object" -> 5
      [] t = "Double" -> 6
      [] t = "MinKey" -> 9
      [] t = "MaxKey" -> 10
      [] t = "Int" -> 11
      [] t = "UInt" -> 12
      [] t = "SmallInt" -> 13
      [] t = "String" -> 14

valueTypeGroup(t) ==
    IF t \in {"Double", "Int", "UInt", "SmallInt"} THEN "Double" ELSE t

isInteger(s) == s.t \in {"Int", "UInt", "SmallInt"}

\* Slice::getInt raises NumberOutOfRange on a UInt above INT64_MAX
getIntThrows(s) == s.t = "UInt" /\ IsNeg64(s.v)

getBool(s) == IF s.v[1] THEN 1 ELSE 0

\* Slice::getNumber<double>
getNumberDouble(s) ==
    CASE s.t = "Double" -> s.v
      [] s.t \in {"Int", "SmallInt"} -> DoubleOfInt(s.v)
      [] s.t = "UInt" -> DoubleOfUInt(s.v)

\* left.getInt() - right.getInt(), an int64_t, returned as an int
intDifference(l, r) ==
    IF getIntThrows(l) \/ getIntThrows(r) THEN {Throw("NumberOutOfRange")}
    ELSE IF SubOverflows(l.v, r.v)
         THEN {Ret(TruncInt(Sub64(l.v, r.v))), Undefined}
         ELSE {Ret(TruncInt(Sub64(l.v, r.v)))}

Sign(n) == IF n < 0 THEN -1 ELSE IF n > 0 THEN 1 ELSE 0

Min(a, b) == IF a < b THEN a ELSE b

\* StringRef::compare: memcmp over the common prefix, then the lengths; only
\* the sign of either is fixed
stringCompare(a, b) ==
    LET n    == Min(Len(a), Len(b))
        diff == {i \in 1..n : a[i] # b[i]}
    IN  IF diff # {}
        THEN LET i == CHOOSE j \in diff : \A m \in diff : j <= m
             IN  {Ret(a[i] - b[i]), Ret(Sign(a[i] - b[i]))}
        ELSE {Ret(Len(a) - Len(b)), Ret(Sign(Len(a) - Len(b)))}

\* Slice::get(key): the field's value, or a None slice
get(obj, key) ==
    IF \E j \in 1..Len(obj.v) : obj.v[j][1] = key
    THEN obj.v[CHOOSE j \in 1..Len(obj.v) : obj.v[j][1] = key][2]
    ELSE noneJsonSlice

\* mismatched with the operands of the subtraction exchanged
mismatchedReversed(l, r) ==
    IF l.t = "MinKey" THEN Ret(-1)
    ELSE IF r.t = "MinKey" THEN Ret(1)
    ELSE IF l.t = "MaxKey" THEN Ret(1)
    ELSE IF r.t = "MaxKey" THEN Ret(-1)
    ELSE Ret(TypeOrdinal(r.t) - TypeOrdinal(l.t))

\* mismatched without the tests for the sentinels
mismatchedNoSentinels(l, r) ==
    Ret(TypeOrdinal(l.t) - TypeOrdinal(r.t))

\* the result for two values of different type groups
mismatched(l, r) ==
    IF l.t = "MinKey" THEN Ret(-1)
    ELSE IF r.t = "MinKey" THEN Ret(1)
    ELSE IF l.t = "MaxKey" THEN Ret(1)
    ELSE IF r.t = "MaxKey" THEN Ret(-1)
    ELSE Ret(TypeOrdinal(l.t) - TypeOrdinal(r.t))

\* mixedNumber with both sides cut to their integer parts
truncated(d) == IF d.cls = "fin" THEN Fin(d.neg, d.mag, FALSE) ELSE d

mixedNumberTruncating(l, r) ==
    {Ret(cmpDouble(truncated(getNumberDouble(l)), truncated(getNumberDouble(r))))}

\* two numbers of different types, not both integers
mixedNumber(l, r) ==
    {Ret(cmpDouble(getNumberDouble(l), getNumberDouble(r)))}

RECURSIVE sliceCompare(_, _)
RECURSIVE objectFields(_, _, _)
RECURSIVE arrayElements(_, _, _)
RECURSIVE objectFieldsSkipMissing(_, _, _)

\* objectFields passing over a key the right object lacks, as arrayElements
\* passes over a None element
objectFieldsSkipMissing(l, r, i) ==
    IF i > Len(l.v) THEN {Ret(0)}
    ELSE LET sub == get(r, l.v[i][1])
         IN  IF sub.t # "None"
             THEN UNION { IF x = Ret(0) THEN objectFieldsSkipMissing(l, r, i + 1)
                          ELSE {x}
                          : x \in sliceCompare(l.v[i][2], sub) }
             ELSE objectFieldsSkipMissing(l, r, i + 1)

\* the loop over the left object's fields, from field i on
objectFields(l, r, i) ==
    IF i > Len(l.v) THEN {Ret(0)}
    ELSE LET sub == get(r, l.v[i][1])
         IN  IF sub.t # "None"
             THEN UNION { IF x = Ret(0) THEN objectFields(l, r, i + 1) ELSE {x}
                          : x \in sliceCompare(l.v[i][2], sub) }
             ELSE {Ret(1)}

\* the loop over the left array's elements, from element i on (idx = i - 1);
\* Slice::at raises IndexOutOfBounds past the right array's end
arrayElements(l, r, i) ==
    IF i > Len(l.v) THEN {Ret(0)}
    ELSE IF i > Len(r.v) THEN {Throw("IndexOutOfBounds")}
    ELSE IF r.v[i].t # "None"
         THEN UNION { IF x = Ret(0) THEN arrayElements(l, r, i + 1) ELSE {x}
                      : x \in sliceCompare(l.v[i], r.v[i]) }
         ELSE arrayElements(l, r, i + 1)

sliceCompare(l, r) ==
    IF l.t = "Object" /\ r.t = "Object" THEN objectFields(l, r, 1)
    ELSE IF l.t = "Array" /\ r.t = "Array" THEN arrayElements(l, r, 1)
    ELSE IF valueTypeGroup(l.t) = valueTypeGroup(r.t)
         THEN IF l.t = r.t
              THEN CASE l.t = "Bool" -> {Ret(getBool(l) - getBool(r))}
                     [] isInteger(l) -> intDifference(l, r)
                     [] l.t = "Double" -> {Ret(cmpDouble(l.v, r.v))}
                     [] l.t = "String" -> stringCompare(l.v, r.v)
                     [] OTHER -> {Ret(0)}
              ELSE IF isInteger(l) /\ isInteger(r) THEN intDifference(l, r)
              ELSE mixedNumber(l, r)
         ELSE {mismatched(l, r)}

(***************************************************************************)
(* JSON text                                                               *)
(*                                                                         *)
(* A text is kept as its syntax: the empty input, a malformed input, a     *)
(* literal, a numeral (sign, integer digits as a 64-bit magnitude, and     *)
(* whether a fraction ".5" follows), a string, an array of texts or an     *)
(* object of key/text pairs in the order written.                          *)
(***************************************************************************)
Text(t, v) == [t |-> t, v |-> v]
EmptyText == Text("empty", <<>>)
BadText == Text("bad", <<>>)
Numeral(n, m, h) == Text("num", [neg |-> n, mag |-> m, half |-> h])

\* Parser::parseNumber: an integer numeral becomes a UInt, or an Int when
\* negative and in range; anything else a Double
parseNumber(lit) ==
    IF lit.half
    THEN Slice("Double", Fin(lit.neg, Round53(lit.mag), TRUE))
    ELSE IF lit.neg
         THEN IF ~IsNeg64(lit.mag) THEN addInt(Neg64(lit.mag))
              ELSE IF lit.mag = Word(0, 0, 0, HalfBase) THEN addInt(lit.mag)
              ELSE Slice("Double", Fin(TRUE, Round53(lit.mag), FALSE))
         ELSE addUInt(lit.mag)

KeyLess(a, b) ==
    LET n    == Min(Len(a), Len(b))
        diff == {i \in 1..n : a[i] # b[i]}
    IN  IF diff # {}
        THEN LET i == CHOOSE j \in diff : \A m \in diff : j <= m
             IN  a[i] < b[i]
        ELSE Len(a) < Len(b)

RECURSIVE SortFields(_)
\* the object's index table: its fields by ascending key
SortFields(fs) ==
    IF Len(fs) <= 1 THEN fs
    ELSE LET i == CHOOSE j \in 1..Len(fs) :
                      \A m \in 1..Len(fs) : m = j \/ KeyLess(fs[j][1], fs[m][1])
         IN  <<fs[i]>> \o SortFields(SubSeq(fs, 1, i - 1) \o SubSeq(fs, i + 1, Len(fs)))

RECURSIVE fromJson(_)
\* vpack::Parser::fromJson of a well-formed, non-empty text
fromJson(tx) ==
    CASE tx.t = "null" -> nullJsonSlice
      [] tx.t = "bool" -> Slice("Bool", tx.v)
      [] tx.t = "num" -> parseNumber(tx.v)
      [] tx.t = "str" -> Slice("String", tx.v)
      [] tx.t = "arr" -> Slice("Array", [i \in 1..Len(tx.v) |-> fromJson(tx.v[i])])
      [] tx.t = "obj" ->
            Slice("Object",
                  SortFields([i \in 1..Len(tx.v) |->
                                 <<tx.v[i][1], fromJson(tx.v[i][2])>>]))

Status(c) == [k |-> c, n |-> 0]
OK == Status("OK")

\* JsonValue::parse: the status and the value assigned to *out
parse(src) ==
    IF src.t = "empty" THEN [st |-> OK, out |-> noneJsonSlice]
    ELSE IF src.t = "bad" THEN [st |-> Status("ParseError"), out |-> noneJsonSlice]
    ELSE [st |-> OK, out |-> fromJson(src)]

RECURSIVE hasJson(_)
\* whether the Dumper can write the slice: it raises NoJsonEquivalent on a
\* NaN, an infinity and on the types JSON does not have
hasJson(s) ==
    CASE s.t \in {"None", "MinKey", "MaxKey"} -> FALSE
      [] s.t = "Double" -> s.v.cls = "fin"
      [] s.t = "Array" -> \A i \in 1..Len(s.v) : hasJson(s.v[i])
      [] s.t = "Object" -> \A i \in 1..Len(s.v) : hasJson(s.v[i][2])
      [] OTHER -> TRUE

RECURSIVE toJson(_)
\* Slice::toJson of a slice the Dumper can write
toJson(s) ==
    CASE s.t = "Null" -> Text("null", <<>>)
      [] s.t = "Bool" -> Text("bool", s.v)
      [] s.t \in {"Int", "SmallInt"} ->
            Numeral(IsNeg64(s.v), IF IsNeg64(s.v) THEN Neg64(s.v) ELSE s.v, FALSE)
      [] s.t = "UInt" -> Numeral(FALSE, s.v, FALSE)
      [] s.t = "Double" -> Numeral(s.v.neg, SubSeq(s.v.mag, 1, 4), s.v.half)
      [] s.t = "String" -> Text("str", s.v)
      [] s.t = "Array" -> Text("arr", [i \in 1..Len(s.v) |-> toJson(s.v[i])])
      [] s.t = "Object" ->
            Text("obj", [i \in 1..Len(s.v) |-> <<s.v[i][1], toJson(s.v[i][2])>>])

\* JsonValue::to_string: the status and the text
to_string(s) ==
    IF s.t = "None" THEN [st |-> OK, str |-> EmptyText]
    ELSE IF hasJson(s) THEN [st |-> OK, str |-> toJson(s)]
    ELSE [st |-> Status("JsonFormatError"), str |-> EmptyText]

\* callVPack: the value fn returns, or the status of the exception it raises
callVPack(succeeds, value) ==
    IF succeeds THEN Ret(value) ELSE Status("TypeMismatch")

\* fromVPackType: the type tag of a slice's type
fromVPackType(t) ==
    CASE t = "None" -> "absent"
      [] t = "Null" -> "null"
      [] t = "Bool" -> "bool"
      [] t \in {"Int", "SmallInt"} -> "signed-int"
      [] t = "UInt" -> "unsigned-int"
      [] t = "Double" -> "double"
      [] t = "String" -> "string"
      [] t = "Array" -> "array"
      [] t = "Object" -> "object"

\* the texts given to parse
One == Numeral(FALSE, Small(1), FALSE)
Two == Numeral(FALSE, Small(2), FALSE)
ElemTexts ==
    { One, Two,
      Numeral(FALSE, Word(0, 0, 0, HalfBase), FALSE),     \* 9223372036854775808
      Numeral(FALSE, Small(1), TRUE),                     \* 1.5
      Text("str", <<97>>),
      Text("arr", <<One>>), Text("arr", <<One, Two>>),
      Text("obj", << <<(<<97>>), One>> >>) }

Keys == { <<97>>, <<98>> }

ArrayTexts == { Text("arr", es) : es \in UNION { [1..n -> ElemTexts] : n \in 0..MaxLen } }

ObjectTexts ==
    { Text("obj", fs) :
        fs \in { f \in UNION { [1..n -> Keys \X ElemTexts] : n \in 0..MaxLen } :
                   \A i, j \in 1..Len(f) : i # j => f[i][1] # f[j][1] } }

ScalarTexts ==
    { EmptyText, BadText, Text("null", <<>>), Text("bool", <<TRUE>>),
      Numeral(TRUE, Small(7), FALSE), Numeral(FALSE, Small(1), TRUE),
      Text("str", <<97>>) }

Texts == ScalarTexts \cup ArrayTexts \cup ObjectTexts

(***************************************************************************)
(* the program: two values are built, then compared; or one is built,      *)
(* written as text and read back, and the two are compared; or one is      *)
(* built and read by a typed getter.                                       *)
(*   pc = "new"   nothing built        pc = "one"   left built             *)
(*   pc = "text"  left written         pc = "two"   left and right built   *)
(*   pc = "done"  the operation of op has returned result                  *)
(***************************************************************************)
NoResult == [k |-> "none", n |-> 0]

Init ==
    /\ pc = "new"
    /\ left = noneJsonSlice
    /\ right = noneJsonSlice
    /\ text = EmptyText
    /\ roundtrip = FALSE
    /\ result = NoResult
    /\ op = "none"

\* the constructed value becomes the left operand, then the right one
Put(v) ==
    /\ pc' = IF pc = "new" THEN "one" ELSE "two"
    /\ left' = IF pc = "new" THEN v ELSE left
    /\ right' = IF pc = "new" THEN right ELSE v
    /\ UNCHANGED <<text, roundtrip, result>>

FromNull ==
    /\ pc \in {"new", "one"}
    /\ Put(from_null)
    /\ op' = "from_null"

FromInt ==
    /\ pc \in {"new", "one"}
    /\ \E w \in IntInputs : Put(from_int(w))
    /\ op' = "from_int"

FromUint ==
    /\ pc \in {"new", "one"}
    /\ \E w \in UintInputs : Put(from_uint(w))
    /\ op' = "from_uint"

FromBool ==
    /\ pc \in {"new", "one"}
    /\ \E b \in BOOLEAN : Put(from_bool(b))
    /\ op' = "from_bool"

FromDouble ==
    /\ pc \in {"new", "one"}
    /\ \E d \in DoubleInputs : Put(from_double(d))
    /\ op' = "from_double"

FromString ==
    /\ pc \in {"new", "one"}
    /\ \E str \in Strings : Put(from_string(str))
    /\ op' = "from_string"

Parse ==
    /\ pc \in {"new", "one"}
    /\ \E src \in Texts :
        LET r == parse(src)
        IN  IF r.st = OK
            THEN Put(r.out)
            ELSE /\ pc' = "done"
                 /\ result' = r.st
                 /\ UNCHANGED <<left, right, text, roundtrip>>
    /\ op' = "parse"

\* JsonValue::from_simdjson(value*): the constructor of the node's type; an
\* array or an object goes through its text and parse
from_simdjson(node) ==
    CASE node.t = "null" -> [st |-> OK, out |-> from_null]
      [] node.t = "signed_integer" -> [st |-> OK, out |-> from_int(node.v)]
      [] node.t = "unsigned_integer" -> [st |-> OK, out |-> from_uint(node.v)]
      [] node.t = "floating_point_number" -> [st |-> OK, out |-> from_double(node.v)]
      [] node.t = "string" -> [st |-> OK, out |-> from_string(node.v)]
      [] node.t = "boolean" -> [st |-> OK, out |-> from_bool(node.v)]
      [] node.t \in {"array", "object"} -> parse(node.v)
      [] OTHER -> [st |-> Status("DataQualityError"), out |-> noneJsonSlice]

\* the nodes the streaming parser hands over
Nodes ==
    { Text("null", <<>>), Text("signed_integer", Neg64(Small(7))),
      Text("unsigned_integer", Small(12)),
      Text("floating_point_number", Fin(FALSE, Mag(1, 0, 0, 0, 0), TRUE)),
      Text("string", <<98>>), Text("boolean", FALSE),
      Text("array", Text("arr", <<Two, One>>)),
      Text("object", Text("obj", << <<(<<98>>), Two>> >>)),
      Text("unsupported", <<>>) }

FromSimdjson ==
    /\ pc \in {"new", "one"}
    /\ \E node \in Nodes :
        LET r == from_simdjson(node)
        IN  IF r.st = OK
            THEN Put(r.out)
            ELSE /\ pc' = "done"
                 /\ result' = r.st
                 /\ UNCHANGED <<left, right, text, roundtrip>>
    /\ op' = "from_simdjson"

\* a raw encoded region holding a sentinel, an operand of compare(Slice, Slice)
RawKey ==
    /\ pc \in {"new", "one"}
    /\ \E s \in {MinKey, MaxKey} : Put(s)
    /\ op' = "raw"

isJsonValue(s) == s.t \notin {"MinKey", "MaxKey"}

ToString ==
    /\ pc = "one"
    /\ isJsonValue(left)
    /\ LET r == to_string(left)
       IN  /\ text' = r.str
           /\ result' = r.st
           /\ pc' = IF r.st = OK THEN "text" ELSE "done"
    /\ op' = "to_string"
    /\ UNCHANGED <<left, right, roundtrip>>

\* parse applied to the text that to_string wrote
ParseBack ==
    /\ pc = "text"
    /\ LET r == parse(text)
       IN  /\ right' = r.out
           /\ result' = r.st
           /\ pc' = IF r.st = OK THEN "two" ELSE "done"
    /\ roundtrip' = TRUE
    /\ op' = "parse"
    /\ UNCHANGED <<left, text>>

\* JsonValue::compare(const JsonValue&)
Compare ==
    /\ pc = "two"
    /\ isJsonValue(left) /\ isJsonValue(right)
    /\ result' \in sliceCompare(left, right)
    /\ pc' = "done"
    /\ op' = "compare"
    /\ UNCHANGED <<left, right, text, roundtrip>>

\* JsonValue::compare(const Slice&, const Slice&): an empty region is read
\* as a None slice
CompareSlices ==
    /\ pc = "two"
    /\ LET ls == IF left.t # "None" THEN left ELSE noneJsonSlice
           rs == IF right.t # "None" THEN right ELSE noneJsonSlice
       IN  result' \in sliceCompare(ls, rs)
    /\ pc' = "done"
    /\ op' = "compare_slices"
    /\ UNCHANGED <<left, right, text, roundtrip>>

\* JsonValue::get_type
GetType ==
    /\ pc = "one"
    /\ isJsonValue(left)
    /\ result' = Status(fromVPackType(left.t))
    /\ pc' = "done"
    /\ op' = "get_type"
    /\ UNCHANGED <<left, right, text, roundtrip>>

\* JsonValue::is_null
IsNull ==
    /\ pc = "one"
    /\ isJsonValue(left)
    /\ result' = Ret(IF left.t = "Null" THEN 1 ELSE 0)
    /\ pc' = "done"
    /\ op' = "is_null"
    /\ UNCHANGED <<left, right, text, roundtrip>>

\* JsonValue::get_bool: Slice::getBool under callVPack
GetBool ==
    /\ pc = "one"
    /\ isJsonValue(left)
    /\ result' = callVPack(left.t = "Bool", IF left.t = "Bool" THEN getBool(left) ELSE 0)
    /\ pc' = "done"
    /\ op' = "get_bool"
    /\ UNCHANGED <<left, right, text, roundtrip>>

\* JsonValue::get_string: Slice::getString under callVPack; the result is
\* the string's length
GetString ==
    /\ pc = "one"
    /\ isJsonValue(left)
    /\ result' = callVPack(left.t = "String", IF left.t = "String" THEN Len(left.v) ELSE 0)
    /\ pc' = "done"
    /\ op' = "get_string"
    /\ UNCHANGED <<left, right, text, roundtrip>>

Next ==
    \/ FromNull
    \/ FromInt
    \/ FromUint
    \/ FromBool
    \/ FromDouble
    \/ FromString
    \/ Parse
    \/ FromSimdjson
    \/ RawKey
    \/ ToString
    \/ ParseBack
    \/ Compare
    \/ CompareSlices
    \/ GetType
    \/ IsNull
    \/ GetBool
    \/ GetString

Spec == Init /\ [][Next]_vars

(***************************************************************************)
(* the properties                                                          *)
(***************************************************************************)
\* a comparison has returned
Compared == pc = "done" /\ op \in {"compare", "compare_slices"}

isNumber(s) == valueTypeGroup(s.t) = "Double"

\* the ranking of the kinds as the specification gives it
SpecRank(s) ==
    CASE s.t = "Null" -> 1
      [] isNumber(s) -> 2
      [] s.t = "String" -> 3
      [] s.t = "Array" -> 4
      [] s.t = "Object" -> 5
      [] OTHER -> 0

\* C1, as the specification states it: two values of different kinds among
\* null, number, string, array and object compare by the ranking
\* null < numbers < string < array < object.
C1_SpecRanking ==
    (Compared /\ SpecRank(left) # 0 /\ SpecRank(right) # 0
              /\ SpecRank(left) # SpecRank(right))
    => /\ result.k = "ret"
       /\ Sign(result.n) = Sign(SpecRank(left) - SpecRank(right))

\* the ranking of the kinds by the ordinals of their types
CodeRank(s) ==
    CASE s.t = "None" -> 0
      [] s.t = "Null" -> 1
      [] s.t = "Bool" -> 2
      [] s.t = "Array" -> 3
      [] s.t = "Object" -> 4
      [] isNumber(s) -> 5
      [] s.t = "String" -> 6

\* C1, amended: two values of different kinds, neither a sentinel, compare by
\* the ranking absent < null < bool < array < object < numbers < string: the
\* result is negative exactly when the left kind ranks below the right one
\* and positive exactly when it ranks above.
C1_KindRanking ==
    (Compared /\ isJsonValue(left) /\ isJsonValue(right)
              /\ CodeRank(left) # CodeRank(right))
    => /\ result.k = "ret"
       /\ Sign(result.n) = Sign(CodeRank(left) - CodeRank(right))

\* a string has been compared with an array and found greater
C1_Witness ==
    /\ Compared
    /\ left.t = "String" /\ right.t = "Array"
    /\ result.k = "ret" /\ result.n > 0

\* the order of two integers by value
IntLess(a, b) ==
    LET aneg == a.t # "UInt" /\ IsNeg64(a.v)
        bneg == b.t # "UInt" /\ IsNeg64(b.v)
    IN  IF aneg # bneg THEN aneg ELSE ULess64(a.v, b.v)

\* C2: two integers compare with the sign of their difference: negative when
\* a < b, zero only when a = b, positive when a > b.
C2_IntegerSign ==
    (Compared /\ isInteger(left) /\ isInteger(right))
    => /\ result.k = "ret"
       /\ Sign(result.n) = (IF IntLess(left, right) THEN -1
                            ELSE IF IntLess(right, left) THEN 1 ELSE 0)

hasKey(obj, key) == \E j \in 1..Len(obj.v) : obj.v[j][1] = key

fieldPasses(L, R, i) ==
    /\ hasKey(R, L.v[i][1])
    /\ Ret(0) \in sliceCompare(L.v[i][2], get(R, L.v[i][1]))

fieldDecides(L, R, i, x) ==
    IF hasKey(R, L.v[i][1])
    THEN x # Ret(0) /\ x \in sliceCompare(L.v[i][2], get(R, L.v[i][1]))
    ELSE x = Ret(1)

ObjectPolicy(L, R, x) ==
    \/ \E i \in 1..Len(L.v) :
          fieldDecides(L, R, i, x) /\ \A j \in 1..(i - 1) : fieldPasses(L, R, j)
    \/ x = Ret(0) /\ \A i \in 1..Len(L.v) : fieldPasses(L, R, i)

ObjA1 == fromJson(Text("obj", << <<(<<97>>), One>> >>))
ObjA1B2 == fromJson(Text("obj", << <<(<<97>>), One>>, <<(<<98>>), Two>> >>))

\* C3: two objects compare by the left object's fields in stored order: the
\* first field whose key the right object lacks gives 1; the first field
\* present in both whose values do not compare as 0 gives the outcome of
\* that comparison; with no such field the result is 0, whatever other
\* fields the right object has.  So {"a":1} against {"a":1,"b":2} gives 0
\* and {"a":1,"b":2} against {"a":1} a positive result.
C3_ObjectPolicy ==
    (Compared /\ left.t = "Object" /\ right.t = "Object")
    => /\ ObjectPolicy(left, right, result)
       /\ (left = ObjA1 /\ right = ObjA1B2) => result = Ret(0)
       /\ (left = ObjA1B2 /\ right = ObjA1) => (result.k = "ret" /\ result.n > 0)

\* {"a":1,"b":2} has been compared with {"a":1}: key "b" is missing
C3_Witness ==
    Compared /\ left = ObjA1B2 /\ right = ObjA1 /\ result = Ret(1)

elementPasses(L, R, i) == Ret(0) \in sliceCompare(L.v[i], R.v[i])

ArrayPolicy(L, R, x) ==
    LET n == Min(Len(L.v), Len(R.v))
    IN  \/ \E i \in 1..n :
              /\ x # Ret(0) /\ x \in sliceCompare(L.v[i], R.v[i])
              /\ \A j \in 1..(i - 1) : elementPasses(L, R, j)
        \/ x = Ret(0) /\ \A i \in 1..n : elementPasses(L, R, i)

\* C4: two arrays compare by the first element-wise comparison that is not 0
\* among the positions both have, and as 0 when there is none, whichever
\* array is longer.
C4_ArrayPrefix ==
    (Compared /\ left.t = "Array" /\ right.t = "Array")
    => ArrayPolicy(left, right, result)

\* C5, as the specification states it: MinKey compares below and MaxKey above
\* every value, itself included; every other value compares above MinKey and
\* below MaxKey.
C5_SentinelBoundsAll ==
    Compared
    => /\ left = MinKey => (result.k = "ret" /\ result.n < 0)
       /\ left = MaxKey => (result.k = "ret" /\ result.n > 0)
       /\ (right = MinKey /\ isJsonValue(left)) => (result.k = "ret" /\ result.n > 0)
       /\ (right = MaxKey /\ isJsonValue(left)) => (result.k = "ret" /\ result.n < 0)

\* C5, amended: MinKey compares below and MaxKey above every other value,
\* every other value compares above MinKey and below MaxKey, and a sentinel
\* compares as 0 with itself.
C5_SentinelBounds ==
    Compared
    => /\ (left = MinKey /\ right # MinKey) => result = Ret(-1)
       /\ (left = MaxKey /\ right # MaxKey) => result = Ret(1)
       /\ (right = MinKey /\ left # MinKey) => result = Ret(1)
       /\ (right = MaxKey /\ left # MaxKey) => result = Ret(-1)
       /\ (left = right /\ ~isJsonValue(left)) => result = Ret(0)

\* MinKey has been compared with itself
C5_Witness ==
    Compared /\ left = MinKey /\ right = MinKey /\ result = Ret(0)

\* C6: no public operation ends by an exception that leaves it.
C6_NoEscapingException ==
    pc = "done" => result.k \notin {"NumberOutOfRange", "IndexOutOfBounds"}

\* the value of a number, as a double of unbounded precision
exactValue(s) ==
    CASE s.t = "Double" -> s.v
      [] s.t = "UInt" -> Fin(FALSE, s.v \o <<0>>, FALSE)
      [] OTHER -> Fin(IsNeg64(s.v) /\ s.v # Zero64,
                      (IF IsNeg64(s.v) THEN Neg64(s.v) ELSE s.v) \o <<0>>, FALSE)

RECURSIVE DeepEqual(_, _)
DeepEqual(a, b) ==
    IF isNumber(a) /\ isNumber(b) THEN exactValue(a) = exactValue(b)
    ELSE IF a.t = "Array" /\ b.t = "Array"
    THEN /\ Len(a.v) = Len(b.v)
         /\ \A i \in 1..Len(a.v) : DeepEqual(a.v[i], b.v[i])
    ELSE IF a.t = "Object" /\ b.t = "Object"
    THEN /\ Len(a.v) = Len(b.v)
         /\ \A i \in 1..Len(a.v) :
               hasKey(b, a.v[i][1]) /\ DeepEqual(a.v[i][2], get(b, a.v[i][1]))
    ELSE a = b

\* C7: to_string succeeds on every constructed value and parse of its text
\* is deep-equal to the value; the absent value is written as the empty
\* text, which parses to the absent value, and its type tag is not null's.
C7_RoundTrip ==
    /\ op = "to_string" => result = OK
    /\ (op = "to_string" /\ left = noneJsonSlice) => text = EmptyText
    /\ (roundtrip /\ pc = "two") => (result = OK /\ DeepEqual(left, right))
    /\ (op = "get_type" /\ left = noneJsonSlice)
           => result # Status(fromVPackType(from_null.t))

numericSubtype(s) ==
    CASE s.t = "Double" -> "double"
      [] s.t = "UInt" -> "unsigned"
      [] s.t = "Int" -> "signed"
      [] OTHER -> "small"

Three == Small(3)
ThreePointZero == Fin(FALSE, Mag(3, 0, 0, 0, 0), FALSE)
OnePointFive == Fin(FALSE, Mag(1, 0, 0, 0, 0), TRUE)
TwoTo53 == Fin(FALSE, Mag(0, 0, 0, 2^5, 0), FALSE)

C9_ResultRange ==
    Compared => (result.k = "ret" /\ result.n \in {-1, 0, 1})

\* C10: every value compares as 0 with itself.
C10_Reflexive ==
    (Compared /\ left = right) => result = Ret(0)

====
